---- MODULE Spec2Model ----
(***************************************************************************)
(* The interval timeline of the HDF5 annotation tool: the flat list        *)
(* TimelineWidget.time_windows, the TimelineSegment objects drawn on the   *)
(* annotation TimelineBar, the drag session of the bar, the boundary       *)
(* adjuster, the dialog edits, the validator and the two save paths.       *)
(*                                                                         *)
(* Python lists are 0-based; sequences here are 1-based, and an index of 0 *)
(* stands for None.  A TimelineSegment is a Python object: it is modelled  *)
(* as an identifier into the heap `objs`, so that two segments with equal  *)
(* fields stay distinct and a segment removed from the bar can still be    *)
(* referenced by the selection or by the drag session.                     *)
(***************************************************************************)
EXTENDS Integers, Sequences, FiniteSets, TLC

\* ------------------------------------------------------------------ bounds
\* Frame count of a loaded recording (100 at construction in the source).
MaxFrames == 4
\* TimelineWidget.default_window_width, scaled with MaxFrames (50 in the source).
default_window_width == 2
\* TimelineWidget.max_windows, scaled with MaxFrames (20 in the source).
max_windows == 2
\* Number of TimelineSegment objects alive at once.
MaxObjects == 3
\* Pixel width of the TimelineBar (at least 500 in the source).
BarWidth == 32
\* How far outside the bar the pointer is followed during a drag, in frames.
MaxOver == 1
\* Longest window list handed to the validator on its own.
MaxList == 3
\* Largest snap threshold a range selector is tried with.
MaxThreshold == 2

\* --------------------------------------------------------------- constants
\* Edge tolerance of a press on a segment, in pixels.
EdgePixels == 5
\* RangeSelector.snap_threshold, in frames.
snap_threshold == 3
\* Frames on each side of the current frame in the range that
\* TimelineWidget.toggle_range_selection sets.
toggle_radius == 10
\* Frames on each side of the current frame in the range that the Enter key
\* of TimelineWidget sets after it.
enter_radius == 5

Labels == {"", "a"}
Ids == 1..MaxObjects
None == 0

VARIABLES
    total_frames,             \* TimelineWidget.total_frames == TimelineBar.total_frames
    current_frame,            \* TimelineWidget.current_frame == TimelineBar.current_frame
    time_windows,             \* TimelineWidget.time_windows: [start, end, description]
    objs,                     \* heap of TimelineSegment objects: id -> [start, end, subtask]
    segments,                 \* TimelineBar.segments (key "annotation"): sequence of ids
    selected_segments,        \* TimelineBar.selected_segments: sequence of ids
    dragging_segment,         \* TimelineBar.dragging_segment: id or None
    drag_mode,                \* TimelineBar.drag_mode
    drag_start_frame,         \* TimelineBar.drag_start_frame
    selected_window_index,    \* MainWindow.selected_window_index (1-based, 0 = None)
    hdf5_model,               \* MainWindow.hdf5_model is set
    current_annotation_field, \* MainWindow.current_annotation_field is set
    range_selector,           \* TimelineBar.range_selector: the handles and their snap points
    out,                      \* what the handler that ran last handed to its collaborators
    pointer_frame,            \* frame index computed by the last mouse event of the bar
    drag_origin               \* extent of the dragged segment when its drag began

vars == <<total_frames, current_frame, time_windows, objs, segments,
          selected_segments, dragging_segment, drag_mode, drag_start_frame,
          selected_window_index, hdf5_model, current_annotation_field,
          range_selector, out, pointer_frame, drag_origin>>

\* ----------------------------------------------------------------- helpers
Max2(a, b) == IF a >= b THEN a ELSE b
Min2(a, b) == IF a <= b THEN a ELSE b

SetMax(S) == CHOOSE x \in S : \A y \in S : y <= x
SetMin(S) == CHOOSE x \in S : \A y \in S : x <= y

Range(s) == {s[i] : i \in 1..Len(s)}

Window(s, e, d) == [start |-> s, end |-> e, description |-> d]
Segment(s, e, d) == [start |-> s, end |-> e, subtask |-> d]

\* sorted(..., key=...) of Python: the stable order of the indices of `keys`.
StableOrder(keys) ==
    LET n == Len(keys)
        rank(i) == 1 + Cardinality({j \in 1..n :
                         keys[j] < keys[i] \/ (keys[j] = keys[i] /\ j < i)})
    IN  [r \in 1..n |-> CHOOSE i \in 1..n : rank(i) = r]

\* s with its k-th element removed (list.pop(k)).
RemoveAt(s, k) == [i \in 1..(Len(s) - 1) |-> IF i < k THEN s[i] ELSE s[i + 1]]

\* s without the first occurrence of x (list.remove(x)).
RemoveFirst(s, x) ==
    IF x \in Range(s)
    THEN RemoveAt(s, SetMin({i \in 1..Len(s) : s[i] = x}))
    ELSE s

\* The objects still referenced from the bar; everything else is garbage.
\* An object's identity is only ever compared for equality, so the live
\* objects are renumbered in the order in which the bar refers to them.
Collect(S) ==
    LET refs == S.segs \o S.sel \o (IF S.drag = None THEN <<>> ELSE <<S.drag>>)
        live == Range(refs)
        first(i) == SetMin({k \in 1..Len(refs) : refs[k] = i})
        id(i) == Cardinality({j \in live : first(j) <= first(i)})
        old(n) == CHOOSE i \in live : id(i) = n
    IN  [S EXCEPT !.objs = [n \in 1..Cardinality(live) |-> S.objs[old(n)]],
                  !.segs = [k \in 1..Len(S.segs) |-> id(S.segs[k])],
                  !.sel = [k \in 1..Len(S.sel) |-> id(S.sel[k])],
                  !.drag = IF S.drag = None THEN None ELSE id(S.drag)]

\* The program state as one record, so that handlers compose.
State == [tf    |-> total_frames,
          cf    |-> current_frame,
          tw    |-> time_windows,
          objs  |-> objs,
          segs  |-> segments,
          sel   |-> selected_segments,
          drag  |-> dragging_segment,
          mode  |-> drag_mode,
          dsf   |-> drag_start_frame,
          swi   |-> selected_window_index,
          model |-> hdf5_model,
          field |-> current_annotation_field,
          rs    |-> range_selector]

Becomes(S) ==
    \E U \in {S} : \E T \in {Collect(U)} :
        /\ total_frames' = T.tf
        /\ current_frame' = T.cf
        /\ time_windows' = T.tw
        /\ objs' = T.objs
        /\ segments' = T.segs
        /\ selected_segments' = T.sel
        /\ dragging_segment' = T.drag
        /\ drag_mode' = T.mode
        /\ drag_start_frame' = T.dsf
        /\ selected_window_index' = T.swi
        /\ hdf5_model' = T.model
        /\ current_annotation_field' = T.field
        /\ range_selector' = T.rs

NoOut == [report |-> "none", writes |-> <<>>, json |-> <<>>, named |-> <<>>]
Report(r) == [NoOut EXCEPT !.report = r]

\* ------------------------------------------------- frame and subtask info
\* MainWindow.update_subtask_info_display: the first window holding the frame.
update_subtask_info_display(S, frame) ==
    LET hits == {i \in 1..Len(S.tw) :
                    S.tw[i].start <= frame /\ frame <= S.tw[i].end}
    IN  [S EXCEPT !.swi = IF hits = {} THEN None ELSE SetMin(hits)]

\* MainWindow.on_frame_changed, connected to TimelineWidget.frameChanged.
on_frame_changed(S, frame) ==
    IF ~S.model THEN S ELSE update_subtask_info_display(S, frame)

\* TimelineWidget.set_current_frame: clamp, then signal only a change.
set_current_frame(S, frame) ==
    LET f == Max2(0, Min2(frame, S.tf - 1))
        T == [S EXCEPT !.cf = f]
    IN  IF f # S.cf THEN on_frame_changed(T, f) ELSE T

\* TimelineWidget.on_slider_value_changed: the signal is sent in any case.
on_slider_value_changed(S, value) ==
    on_frame_changed(set_current_frame(S, value), value)

\* ------------------------------------------------------------ add a window
\* A next free start that leaves one frame out after the last window.
find_next_available_start_Gap(S) ==
    IF S.tw = <<>> THEN 0
    ELSE LET next_start == SetMax({S.tw[i].end : i \in 1..Len(S.tw)}) + 2
         IN  IF next_start >= S.tf THEN S.tf - 1 ELSE next_start

\* TimelineWidget.find_next_available_start.
find_next_available_start(S) ==
    IF S.tw = <<>> THEN 0
    ELSE LET next_start == SetMax({S.tw[i].end : i \in 1..Len(S.tw)}) + 1
         IN  IF next_start >= S.tf THEN S.tf - 1 ELSE next_start

calculate_optimal_end_frame(S, start_frame) ==
    LET default_end == start_frame + default_window_width - 1
        max_possible_end == S.tf - 1
        future == {S.tw[i].start : i \in {j \in 1..Len(S.tw) : S.tw[j].start > start_frame}}
        limited == IF future # {} THEN Min2(default_end, SetMin(future) - 1)
                   ELSE default_end
        final_end == Min2(limited, max_possible_end)
    IN  IF final_end < start_frame THEN start_frame ELSE final_end

check_window_overlap(S, s, e) ==
    \E i \in 1..Len(S.tw) : ~(e < S.tw[i].start \/ s > S.tw[i].end)

\* A fresh TimelineSegment object.
FreshId(S) == SetMin(Ids \ DOMAIN S.objs)
CanAllocate(S) == Ids \ DOMAIN S.objs # {}

\* TimelineWidget.create_window_segment: a new segment at the end of the bar.
create_window_segment(S, w) ==
    LET id == FreshId(S)
    IN  [S EXCEPT !.objs = [i \in DOMAIN S.objs \cup {id} |->
                               IF i = id THEN Segment(w.start, w.end, w.description)
                               ELSE S.objs[i]],
                  !.segs = Append(S.segs, id)]

\* MainWindow.on_window_added, connected to TimelineWidget.windowAdded.
on_window_added(S, start_frame) ==
    set_current_frame(update_subtask_info_display(S, S.cf), start_frame)

\* The extent add_time_window chooses, before its two final checks;
\* "none" when it gives up because the end of the recording is reached.
AddExtent(S) ==
    LET in_window == \E i \in 1..Len(S.tw) :
                        S.tw[i].start <= S.cf /\ S.cf <= S.tw[i].end
        nas == find_next_available_start(S)
        before == {S.tw[i].end : i \in {j \in 1..Len(S.tw) : S.tw[j].end < S.cf}}
        last_end == IF before = {} THEN -1 ELSE SetMax(before)
    IN  IF in_window
        THEN IF nas >= S.tf - 1
             THEN [kind |-> "none", start |-> 0, end |-> 0]
             ELSE [kind |-> "some", start |-> nas,
                   end |-> calculate_optimal_end_frame(S, nas)]
        ELSE [kind |-> "some",
              start |-> IF last_end + 1 > S.cf THEN S.cf ELSE last_end + 1,
              end |-> S.cf]

\* The report of TimelineWidget.add_time_window.
AddReport(S) ==
    LET x == AddExtent(S)
    IN  IF Len(S.tw) >= max_windows THEN "limit"
        ELSE IF x.kind = "none" THEN "end_of_video"
        ELSE IF x.end < x.start THEN "no_place"
        ELSE IF check_window_overlap(S, x.start, x.end) THEN "overlap"
        ELSE "added"

\* An add that puts a window of one frame at the current frame without
\* looking at the windows there are.
add_time_window_AtCurrentFrame(S) ==
    LET w == Window(S.cf, S.cf, "")
    IN  IF Len(S.tw) >= max_windows THEN S
        ELSE create_window_segment([S EXCEPT !.tw = Append(S.tw, w)], w)

\* TimelineWidget.add_time_window.
add_time_window(S) ==
    LET x == AddExtent(S)
        w == Window(x.start, x.end, "")
        A == create_window_segment([S EXCEPT !.tw = Append(S.tw, w)], w)
    IN  IF AddReport(S) # "added" THEN S
        ELSE set_current_frame(on_window_added(A, x.start), x.end)

\* ------------------------------------------------------ boundary adjuster
\* TimelineBar.update_segment_boundaries: the first annotation segment whose
\* subtask equals the description of time_windows[window_index] gets the extent.
update_segment_boundaries(S, window_index, new_start, new_end) ==
    IF window_index > Len(S.tw) THEN S
    ELSE LET description == S.tw[window_index].description
             hits == {k \in 1..Len(S.segs) : S.objs[S.segs[k]].subtask = description}
         IN  IF hits = {} THEN S
             ELSE LET id == S.segs[SetMin(hits)]
                  IN  [S EXCEPT !.objs[id].start = new_start,
                                !.objs[id].end = new_end]

\* The index in time_windows that the adjuster takes for the dragged segment:
\* the first window whose description equals the segment's subtask.
CurrentWindowIndex(S, cur) ==
    LET hits == {i \in 1..Len(S.tw) : S.tw[i].description = S.objs[cur].subtask}
    IN  IF hits = {} THEN None ELSE SetMin(hits)

\* The windows before and after time_windows[ci] in start-sorted order.
Neighbours(S, ci) ==
    LET sorted_windows == StableOrder([i \in 1..Len(S.tw) |-> S.tw[i].start])
        csi == CHOOSE k \in 1..Len(S.tw) : sorted_windows[k] = ci
    IN  [prev |-> IF csi > 1 THEN sorted_windows[csi - 1] ELSE None,
         next |-> IF csi < Len(S.tw) THEN sorted_windows[csi + 1] ELSE None]

\* The move branch: stop at the previous window, then at the next one, then
\* at the two ends of the recording.
AdjustMove(S, nb, new_start, new_end) ==
    LET window_width == new_end - new_start + 1
        a == IF nb.prev # None /\ new_start <= S.tw[nb.prev].end
             THEN [start |-> S.tw[nb.prev].end + 1,
                   end |-> S.tw[nb.prev].end + 1 + window_width - 1]
             ELSE [start |-> new_start, end |-> new_end]
        b == IF nb.next # None /\ a.end >= S.tw[nb.next].start
             THEN [start |-> S.tw[nb.next].start - 1 - window_width + 1,
                   end |-> S.tw[nb.next].start - 1]
             ELSE a
        c == IF b.start < 0 THEN [start |-> 0, end |-> window_width - 1] ELSE b
        d == IF c.end >= S.tf
             THEN [start |-> S.tf - 1 - window_width + 1, end |-> S.tf - 1]
             ELSE c
    IN  [start |-> d.start, end |-> d.end, S |-> S]

\* The resize_left branch.
AdjustResizeLeft(S, nb, new_start, new_end) ==
    IF nb.prev # None /\ new_start <= S.tw[nb.prev].end
    THEN LET prev_window == S.tw[nb.prev]
             ns == prev_window.end + 1
             T == [S EXCEPT !.tw[nb.prev] =
                        Window(prev_window.start, ns - 1, prev_window.description)]
         IN  [start |-> ns, end |-> new_end,
              S |-> update_segment_boundaries(T, nb.prev, prev_window.start, ns - 1)]
    ELSE [start |-> new_start, end |-> new_end, S |-> S]

\* The resize_right branch.
AdjustResizeRight(S, nb, new_start, new_end) ==
    IF nb.next # None /\ new_end >= S.tw[nb.next].start
    THEN LET next_window == S.tw[nb.next]
             ne == next_window.start - 1
             T == [S EXCEPT !.tw[nb.next] =
                        Window(ne + 1, next_window.end, next_window.description)]
         IN  [start |-> new_start, end |-> ne,
              S |-> update_segment_boundaries(T, nb.next, ne + 1, next_window.end)]
    ELSE [start |-> new_start, end |-> new_end, S |-> S]

\* TimelineBar.adjust_window_boundaries_smart: the adjusted extent and the
\* state with the neighbour's window and segment rewritten.
adjust_window_boundaries_smart(S, cur, new_start, new_end, operation_type) ==
    LET ci == CurrentWindowIndex(S, cur)
        nb == Neighbours(S, ci)
    IN  IF ci = None THEN [start |-> new_start, end |-> new_end, S |-> S]
        ELSE IF operation_type = "move" THEN AdjustMove(S, nb, new_start, new_end)
        ELSE IF operation_type = "resize_left"
             THEN AdjustResizeLeft(S, nb, new_start, new_end)
        ELSE AdjustResizeRight(S, nb, new_start, new_end)

\* ------------------------------------------------------------ drag session
\* The proposal for a pointer frame without the width test of the move.
Proposal_Unguarded(S, frame) ==
    LET seg == S.objs[S.drag]
        delta == frame - S.dsf
        ms == Max2(0, seg.start + delta)
        me == Min2(S.tf - 1, seg.end + delta)
    IN  IF S.mode = "move"
        THEN [start |-> ms, end |-> me, ok |-> TRUE]
        ELSE IF S.mode = "resize_left"
        THEN [start |-> Max2(0, Min2(frame, seg.end - 1)), end |-> seg.end, ok |-> TRUE]
        ELSE [start |-> seg.start,
              end |-> Min2(S.tf - 1, Max2(frame, seg.start + 1)), ok |-> TRUE]

\* The proposal TimelineBar.mouseMoveEvent makes for a pointer frame; for a
\* move, ok is FALSE when the clamped proposal does not keep the width.
Proposal(S, frame) ==
    LET seg == S.objs[S.drag]
        delta == frame - S.dsf
        ms == Max2(0, seg.start + delta)
        me == Min2(S.tf - 1, seg.end + delta)
    IN  IF S.mode = "move"
        THEN [start |-> ms, end |-> me, ok |-> (me - ms = seg.end - seg.start)]
        ELSE IF S.mode = "resize_left"
        THEN [start |-> Max2(0, Min2(frame, seg.end - 1)), end |-> seg.end, ok |-> TRUE]
        ELSE [start |-> seg.start,
              end |-> Min2(S.tf - 1, Max2(frame, seg.start + 1)), ok |-> TRUE]

\* TimelineBar.mouseMoveEvent while a segment is dragged.
mouseMoveEvent(S, frame) ==
    LET p == Proposal(S, frame)
        r == adjust_window_boundaries_smart(S, S.drag, p.start, p.end, S.mode)
    IN  IF ~p.ok THEN S
        ELSE [r.S EXCEPT !.objs[S.drag].start = r.start,
                         !.objs[S.drag].end = r.end]

\* The synchronisation without its sort: the windows in the order of the bar.
sync_segments_to_time_windows_Unsorted(S) ==
    [S EXCEPT !.tw = [k \in 1..Len(S.segs) |->
        LET o == S.objs[S.segs[k]]
        IN  Window(o.start, o.end, o.subtask)]]

\* TimelineBar.sync_segments_to_time_windows.
sync_segments_to_time_windows(S) ==
    LET order == StableOrder([k \in 1..Len(S.segs) |-> S.objs[S.segs[k]].start])
    IN  [S EXCEPT !.tw = [k \in 1..Len(S.segs) |->
            LET o == S.objs[S.segs[order[k]]]
            IN  Window(o.start, o.end, o.subtask)]]

\* TimelineBar.mouseReleaseEvent of the left button.
mouseReleaseEvent(S) ==
    IF S.drag = None THEN S
    ELSE [sync_segments_to_time_windows(S) EXCEPT
              !.drag = None, !.mode = "none", !.dsf = 0]

\* int(pos / width * total_frames) and int(frame / total_frames * width).
FrameAt(S, pos) == (pos * S.tf) \div BarWidth
PixelOf(S, frame) == (frame * BarWidth) \div S.tf

\* The segment a press or double click at a frame lands on, or None.
ClickedSegment(S, frame) ==
    LET hits == {k \in 1..Len(S.segs) :
                    S.objs[S.segs[k]].start <= frame /\ frame <= S.objs[S.segs[k]].end}
    IN  IF hits = {} THEN None ELSE S.segs[SetMin(hits)]

Abs(x) == IF x < 0 THEN -x ELSE x

\* The drag mode a plain press at pixel pos on a segment starts.
PressMode(S, seg, pos) ==
    IF Abs(pos - PixelOf(S, S.objs[seg].start)) <= EdgePixels THEN "resize_left"
    ELSE IF Abs(pos - PixelOf(S, S.objs[seg].end)) <= EdgePixels THEN "resize_right"
    ELSE "move"

\* TimelineBar.mousePressEvent of the left button (range selector inactive).
mousePressEvent(S, pos, ctrl) ==
    LET frame == FrameAt(S, pos)
        seg == ClickedSegment(S, frame)
        mode == PressMode(S, seg, pos)
    IN  IF seg # None
        THEN IF ctrl
             THEN IF seg \in Range(S.sel)
                  THEN [S EXCEPT !.sel = RemoveFirst(S.sel, seg)]
                  ELSE [S EXCEPT !.sel = Append(S.sel, seg)]
             ELSE [S EXCEPT !.sel = IF mode = "move" THEN <<seg>> ELSE S.sel,
                            !.drag = seg, !.mode = mode, !.dsf = frame]
        ELSE IF ctrl THEN S
             ELSE set_current_frame([S EXCEPT !.sel = <<>>],
                                    Min2(Max2(0, frame), S.tf - 1))

\* ------------------------------------------------------------ dialog edits
\* What PhraseSelectionDialog can be accepted with for a window [s, e]: the
\* spin boxes exist unless s = e = 0, they range over 0..999999, and
\* validate_time_interval wants start < end.
DialogAccepts(s, e, new_start, new_end) ==
    IF s = 0 /\ e = 0
    THEN new_start = 0 /\ new_end = 0
    ELSE 0 <= new_start /\ new_start < new_end

\* TimelineBar.edit_segment_annotation with the dialog accepted.
edit_segment_annotation(S, seg, new_start, new_end, text) ==
    LET o == S.objs[seg]
        time_changed == new_start # o.start \/ new_end # o.end
        hits == {i \in 1..Len(S.tw) : S.tw[i].start = o.start /\ S.tw[i].end = o.end}
        i == SetMin(hits)
        conflict == \E j \in 1..Len(S.tw) :
                        j # i /\ ~(new_end < S.tw[j].start \/ new_start > S.tw[j].end)
    IN  IF hits = {} THEN S
        ELSE IF time_changed
        THEN IF conflict THEN S
             ELSE [S EXCEPT !.tw[i] = Window(new_start, new_end, text),
                            !.objs[seg] = Segment(new_start, new_end, text)]
        ELSE [S EXCEPT !.tw[i] = Window(S.tw[i].start, S.tw[i].end, text),
                       !.objs[seg].subtask = text]

\* MainWindow.check_time_interval_conflict.
check_time_interval_conflict(S, s, e, exclude_index) ==
    \E i \in 1..Len(S.tw) :
        i # exclude_index /\ ~(e < S.tw[i].start \/ s > S.tw[i].end)

\* TimelineWidget.update_window_segment: relabel the first segment with the extent.
update_window_segment(S, window_index, new_description) ==
    IF window_index < 1 \/ window_index > Len(S.tw) THEN S
    ELSE LET w == S.tw[window_index]
             hits == {k \in 1..Len(S.segs) :
                         S.objs[S.segs[k]].start = w.start /\ S.objs[S.segs[k]].end = w.end}
             T == [S EXCEPT !.tw[window_index] = Window(w.start, w.end, new_description)]
         IN  IF hits = {} THEN T
             ELSE [T EXCEPT !.objs[S.segs[SetMin(hits)]].subtask = new_description]

\* The segments of the bar whose extent is not [s, e].
WithoutExtent(S, s, e) ==
    SelectSeq(S.segs, LAMBDA id : ~(S.objs[id].start = s /\ S.objs[id].end = e))

\* TimelineWidget.update_window_segment_with_time: drop every segment with the
\* old extent and put a new segment at the end of the bar.
update_window_segment_with_time(S, window_index, old_start, old_end, new_start, new_end, new_description) ==
    IF window_index < 1 \/ window_index > Len(S.tw) THEN S
    ELSE create_window_segment(
             Collect([S EXCEPT !.segs = WithoutExtent(S, old_start, old_end)]),
             Window(new_start, new_end, new_description))

\* MainWindow.edit_current_annotation with the dialog accepted.
edit_current_annotation(S, new_start, new_end, new_description) ==
    LET i == S.swi
        w == S.tw[i]
        time_changed == new_start # w.start \/ new_end # w.end
        T == [S EXCEPT !.tw[i] = Window(new_start, new_end, new_description)]
    IN  IF time_changed /\ check_time_interval_conflict(S, new_start, new_end, i)
        THEN S
        ELSE update_subtask_info_display(
                 IF time_changed
                 THEN update_window_segment_with_time(T, i, w.start, w.end,
                                                      new_start, new_end, new_description)
                 ELSE update_window_segment(T, i, new_description),
                 S.cf)

\* ------------------------------------------------------------------ delete
\* TimelineWidget.on_segment_deleted: pop the first window with the extent.
on_segment_deleted(S, seg) ==
    LET o == S.objs[seg]
        hits == {i \in 1..Len(S.tw) : S.tw[i].start = o.start /\ S.tw[i].end = o.end}
    IN  IF hits = {} THEN S ELSE [S EXCEPT !.tw = RemoveAt(S.tw, SetMin(hits))]

RECURSIVE DeleteAll(_, _)
DeleteAll(S, todo) ==
    IF todo = <<>> THEN S
    ELSE DeleteAll(on_segment_deleted([S EXCEPT !.segs = RemoveFirst(S.segs, Head(todo))],
                                      Head(todo)),
                   Tail(todo))

\* TimelineBar.keyPressEvent with Backspace and a non-empty selection.
keyPressBackspace(S) == [DeleteAll(S, S.sel) EXCEPT !.sel = <<>>]

\* TimelineWidget.clear_timeline_annotations, confirmed.
clear_timeline_annotations(S) == [S EXCEPT !.tw = <<>>, !.segs = <<>>]

\* --------------------------------------------------------------- validator
\* TimelineWidget.validate_time_windows: "valid" or the reason of the first
\* check that fails.  The loop over the sorted windows also yields the two
\* extents its message names for a gap or an overlap.
Verdict(reason, named) == [reason |-> reason, named |-> named]
Extent(w) == <<w.start, w.end>>

\* The loop with the test for a gap put before the test for an overlap.
RECURSIVE PairCheck_GapFirst(_, _, _)
PairCheck_GapFirst(tw, order, i) ==
    IF i > Len(order) THEN Verdict("valid", <<>>)
    ELSE LET cur == tw[order[i]]
             pair == <<Extent(cur), Extent(tw[order[i + 1]])>>
         IN  IF cur.start > cur.end THEN Verdict("inverted", <<>>)
             ELSE IF i < Len(order) /\ cur.end + 1 # tw[order[i + 1]].start
                  THEN Verdict("gap", pair)
             ELSE IF i < Len(order) /\ cur.end >= tw[order[i + 1]].start
                  THEN Verdict("overlap", pair)
             ELSE PairCheck_GapFirst(tw, order, i + 1)

\* The loop with a test for a gap only.
RECURSIVE PairCheck_GapOnly(_, _, _)
PairCheck_GapOnly(tw, order, i) ==
    IF i > Len(order) THEN Verdict("valid", <<>>)
    ELSE LET cur == tw[order[i]]
             pair == <<Extent(cur), Extent(tw[order[i + 1]])>>
         IN  IF cur.start > cur.end THEN Verdict("inverted", <<>>)
             ELSE IF i < Len(order) /\ cur.end + 1 < tw[order[i + 1]].start
                  THEN Verdict("gap", pair)
             ELSE PairCheck_GapOnly(tw, order, i + 1)

RECURSIVE PairCheck(_, _, _)
PairCheck(tw, order, i) ==
    IF i > Len(order) THEN Verdict("valid", <<>>)
    ELSE LET cur == tw[order[i]]
             pair == <<Extent(cur), Extent(tw[order[i + 1]])>>
         IN  IF cur.start > cur.end THEN Verdict("inverted", <<>>)
             ELSE IF i < Len(order) /\ cur.end >= tw[order[i + 1]].start
                  THEN Verdict("overlap", pair)
             ELSE IF i < Len(order) /\ cur.end + 1 # tw[order[i + 1]].start
                  THEN Verdict("gap", pair)
             ELSE PairCheck(tw, order, i + 1)

\* The validator without its check of the last frame.
validate_time_windows_NoLastEnd(tw, tf) ==
    LET order == StableOrder([i \in 1..Len(tw) |-> tw[i].start])
        ranges == {<<tw[i].start, tw[i].end>> : i \in 1..Len(tw)}
        pairs == PairCheck(tw, order, 1).reason
    IN  IF tw = <<>> THEN "empty"
        ELSE IF tw[order[1]].start # 0 THEN "first_start"
        ELSE IF pairs # "valid" THEN pairs
        ELSE IF Len(tw) # Cardinality(ranges) THEN "duplicate"
        ELSE "valid"

validate_time_windows(tw, tf) ==
    LET order == StableOrder([i \in 1..Len(tw) |-> tw[i].start])
        ranges == {<<tw[i].start, tw[i].end>> : i \in 1..Len(tw)}
        pairs == PairCheck(tw, order, 1).reason
    IN  IF tw = <<>> THEN "empty"
        ELSE IF tw[order[1]].start # 0 THEN "first_start"
        ELSE IF tw[order[Len(tw)]].end # tf - 1 THEN "last_end"
        ELSE IF pairs # "valid" THEN pairs
        ELSE IF Len(tw) # Cardinality(ranges) THEN "duplicate"
        ELSE "valid"

\* The extents the message of validate_time_windows names: the two windows
\* of the pair for a gap or an overlap, none for the other messages.
validate_time_windows_named(tw, reason) ==
    LET order == StableOrder([i \in 1..Len(tw) |-> tw[i].start])
    IN  IF reason \in {"gap", "overlap"}
        THEN PairCheck(tw, order, 1).named
        ELSE <<>>

\* ------------------------------------------------------------- persistence
\* PhraseMapping: the display phrase "a" is stored as "A"; "b" has no mapping.
get_english_translation(description) == IF description = "a" THEN "A" ELSE ""
get_chinese_translation(english_text) == IF english_text = "A" THEN "a" ELSE ""

StoredTexts == {"", "A", "b"}

\* The calls of HDF5Model.set_language_for_key that TimelineWidget.save_annotations
\* makes for a window list: one per window with a description, in list order.
RECURSIVE SaveCalls(_)
SaveCalls(tw) ==
    IF tw = <<>> THEN <<>>
    ELSE LET w == Head(tw)
             english == get_english_translation(w.description)
             save_text == IF english # "" THEN english ELSE w.description
         IN  IF w.description # ""
             THEN <<[start |-> w.start, end |-> w.end, text |-> save_text]>>
                  \o SaveCalls(Tail(tw))
             ELSE SaveCalls(Tail(tw))

\* HDF5Model.set_language_for_key succeeds for a call: the dataset takes
\* strings (io) and the frames are inside it.
set_language_for_key(S, call, io) ==
    io /\ ~(call.start < 0 \/ call.end >= S.tf \/ call.start > call.end)

\* A save that reports success whenever the window set is valid.
widget_save_annotations_AlwaysSaved(S, io) ==
    IF validate_time_windows(S.tw, S.tf) # "valid"
    THEN Report("validation_failed")
    ELSE [report |-> "saved", writes |-> SaveCalls(S.tw), json |-> <<>>, named |-> <<>>]

\* TimelineWidget.save_annotations(hdf5_model, annotation_field).
widget_save_annotations(S, io) ==
    LET calls == SaveCalls(S.tw)
        success_count == Cardinality({k \in 1..Len(calls) :
                                         set_language_for_key(S, calls[k], io)})
    IN  IF validate_time_windows(S.tw, S.tf) # "valid"
        THEN Report("validation_failed")
        ELSE [report |-> IF success_count > 0 THEN "saved" ELSE "nothing_saved",
              writes |-> calls, json |-> <<>>, named |-> <<>>]

\* MainWindow.save_annotations; reply is the answer to the confirmation.
save_annotations(S, reply, io) ==
    IF ~S.model \/ S.tw = <<>> THEN Report("nothing_to_save")
    ELSE IF ~S.field THEN Report("no_field")
    ELSE IF validate_time_windows(S.tw, S.tf) # "valid" THEN Report("validation_failed")
    ELSE IF ~reply THEN Report("cancelled")
    ELSE widget_save_annotations(S, io)

\* Entries whose duration is the distance of the two frames.
JsonEntries_Distance(tw) ==
    [k \in 1..Len(tw) |->
        LET english == get_english_translation(tw[k].description)
        IN  [start_frame |-> tw[k].start,
             end_frame |-> tw[k].end,
             description |-> IF english # "" THEN english ELSE tw[k].description,
             duration_frames |-> tw[k].end - tw[k].start]]

\* The entries MainWindow.save_annotations_as_json writes.
JsonEntries(tw) ==
    [k \in 1..Len(tw) |->
        LET english == get_english_translation(tw[k].description)
        IN  [start_frame |-> tw[k].start,
             end_frame |-> tw[k].end,
             description |-> IF english # "" THEN english ELSE tw[k].description,
             duration_frames |-> tw[k].end - tw[k].start + 1]]

\* The JSON export without its call of the validator.
save_annotations_as_json_Unchecked(S, chosen) ==
    IF S.tw = <<>> THEN Report("nothing_to_save")
    ELSE IF ~S.field THEN Report("no_field")
    ELSE IF ~chosen THEN Report("cancelled")
    ELSE [report |-> "json_saved", writes |-> <<>>, named |-> <<>>,
          json |-> <<[total_frames |-> S.tf, entries |-> JsonEntries(S.tw)]>>]

\* MainWindow.save_annotations_as_json; chosen is FALSE when the file dialog
\* is cancelled.
save_annotations_as_json(S, chosen) ==
    IF S.tw = <<>> THEN Report("nothing_to_save")
    ELSE IF ~S.field THEN Report("no_field")
    ELSE IF validate_time_windows(S.tw, S.tf) # "valid" THEN Report("validation_failed")
    ELSE IF ~chosen THEN Report("cancelled")
    ELSE [report |-> "json_saved", writes |-> <<>>, named |-> <<>>,
          json |-> <<[total_frames |-> S.tf, entries |-> JsonEntries(S.tw)]>>]

\* -------------------------------------------------------------------- load
\* TimelineWidget.set_total_frames; the frame slider pulls the current frame
\* back into its new range.
set_total_frames(S, frames) ==
    LET T == [S EXCEPT !.tf = Max2(1, frames), !.rs.max_val = Max2(1, frames)]
    IN  IF T.cf > T.tf - 1 THEN on_slider_value_changed(T, T.tf - 1) ELSE T

\* MainWindow.load_hdf5_file for a recording of frame_count frames.
load_hdf5_file(S, frame_count) ==
    LET A == [S EXCEPT !.field = FALSE, !.tw = <<>>, !.segs = <<>>, !.model = TRUE]
        B == set_total_frames(A, frame_count)
    IN  on_frame_changed(B, B.cf)

\* HDF5Model.get_languages_for_key: the runs of equal non-empty text of the
\* field's dataset (one text per frame, frames 0..n-1), in frame order.
RECURSIVE DecodeRuns(_, _, _, _, _, _)
DecodeRuns(data, n, i, current_task, start_idx, acc) ==
    IF i = n
    THEN IF current_task # ""
         THEN Append(acc, [start |-> start_idx, end |-> n - 1, text |-> current_task])
         ELSE acc
    ELSE IF data[i] # ""
    THEN IF current_task = "" \/ data[i] # current_task
         THEN DecodeRuns(data, n, i + 1, data[i], i,
                  IF current_task # ""
                  THEN Append(acc, [start |-> start_idx, end |-> i - 1,
                                    text |-> current_task])
                  ELSE acc)
         ELSE DecodeRuns(data, n, i + 1, current_task, start_idx, acc)
    ELSE IF current_task # ""
    THEN DecodeRuns(data, n, i + 1, "", 0,
             Append(acc, [start |-> start_idx, end |-> i - 1, text |-> current_task]))
    ELSE DecodeRuns(data, n, i + 1, "", 0, acc)

get_languages_for_key(S, data) == DecodeRuns(data, S.tf, 0, "", 0, <<>>)

\* MainWindow.load_field_annotations: a window and a segment per stored run.
RECURSIVE LoadRuns(_, _)
LoadRuns(S, runs) ==
    IF runs = <<>> THEN S
    ELSE LET r == Head(runs)
             chinese == get_chinese_translation(r.text)
             w == Window(r.start, r.end, IF chinese # "" THEN chinese ELSE r.text)
         IN  LoadRuns(create_window_segment([S EXCEPT !.tw = Append(S.tw, w)], w),
                      Tail(runs))

\* The load of a field that leaves the windows of the field before it in place.
load_selected_field_NoClear(S, data) ==
    LET A == Collect([S EXCEPT !.field = TRUE])
        B == LoadRuns(A, get_languages_for_key(S, data))
    IN  update_subtask_info_display(B, B.cf)

\* MainWindow.load_selected_field for a compatible field holding `data`.
load_selected_field(S, data) ==
    LET A == Collect([S EXCEPT !.field = TRUE, !.tw = <<>>, !.segs = <<>>])
        B == LoadRuns(A, get_languages_for_key(S, data))
    IN  update_subtask_info_display(B, B.cf)

\* ---------------------------------------------------------- range selector
\* RangeSelector.__init__(min_val, max_val).
RangeSelector(min_val, max_val) ==
    [min_val |-> min_val, max_val |-> max_val, start |-> min_val, end |-> max_val,
     snap_threshold |-> snap_threshold, snap_points |-> {}, active |-> FALSE]

\* The snap point a handle at raw_val goes to, among the points the handle
\* may take: the nearest one within the threshold, the smallest of them when
\* two are equally near (the points are tried in increasing order and only a
\* strictly smaller distance replaces the choice); raw_val when there is none.
Snap(rs, raw_val, allowed) ==
    LET near == {p \in allowed : Abs(raw_val - p) <= rs.snap_threshold}
        closest == {p \in near : \A q \in near : Abs(raw_val - p) <= Abs(raw_val - q)}
    IN  IF near = {} THEN raw_val ELSE SetMin(closest)

\* RangeSelector.set_start with every snap point allowed, also one at or
\* after the end handle.
set_start_AnyPoint(rs, val) ==
    LET raw_val == Max2(rs.min_val, Min2(val, rs.end - 1))
    IN  [rs EXCEPT !.start = Snap(rs, raw_val, rs.snap_points)]

\* RangeSelector.set_start.
set_start(rs, val) ==
    LET raw_val == Max2(rs.min_val, Min2(val, rs.end - 1))
        allowed == {p \in rs.snap_points : p >= rs.min_val /\ p < rs.end}
    IN  [rs EXCEPT !.start = Snap(rs, raw_val, allowed)]

\* RangeSelector.set_end.
set_end(rs, val) ==
    LET raw_val == Max2(rs.start + 1, Min2(val, rs.max_val))
        allowed == {p \in rs.snap_points : p > rs.start /\ p <= rs.max_val}
    IN  [rs EXCEPT !.end = Snap(rs, raw_val, allowed)]

\* RangeSelector.move_range.
move_range(rs, delta) ==
    LET range_size == rs.end - rs.start
        new_start == Max2(rs.min_val, Min2(rs.start + delta, rs.max_val - range_size))
    IN  [rs EXCEPT !.start = new_start, !.end = new_start + range_size]

\* TimelineWidget.detect_language_boundaries: the starts and ends of the
\* segments of the bar.
detect_language_boundaries(S) ==
    {S.objs[S.segs[k]].start : k \in 1..Len(S.segs)}
        \cup {S.objs[S.segs[k]].end : k \in 1..Len(S.segs)}

\* TimelineWidget.toggle_range_selection.
toggle_range_selection(S, checked) ==
    IF checked
    THEN [S EXCEPT !.rs.start = Max2(0, S.cf - toggle_radius),
                   !.rs.end = Min2(S.cf + toggle_radius, S.tf - 1),
                   !.rs.snap_points = detect_language_boundaries(S),
                   !.rs.active = TRUE]
    ELSE [S EXCEPT !.rs.active = FALSE]

\* The Enter key: TimelineWidget.keyPressEvent starts the range selection
\* around the current frame; with the selector active TimelineBar.keyPressEvent
\* confirms the range and TimelineWidget.on_range_selected ends the selection.
keyPressEnter(S) ==
    IF S.rs.active THEN toggle_range_selection(S, FALSE)
    ELSE [toggle_range_selection(S, TRUE) EXCEPT
              !.rs.start = Max2(0, S.cf - enter_radius),
              !.rs.end = Min2(S.tf - 1, S.cf + enter_radius)]

\* ----------------------------------------------------------------- actions
NoExtent == [start |-> 0, end |-> 0]

Init ==
    /\ total_frames = MaxFrames
    /\ current_frame = 0
    /\ time_windows = <<>>
    /\ objs = [i \in {} |-> Segment(0, 0, "")]
    /\ segments = <<>>
    /\ selected_segments = <<>>
    /\ dragging_segment = None
    /\ drag_mode = "none"
    /\ drag_start_frame = 0
    /\ selected_window_index = None
    /\ hdf5_model = FALSE
    /\ current_annotation_field = FALSE
    /\ range_selector = RangeSelector(0, MaxFrames)
    /\ out = NoOut
    /\ pointer_frame = 0
    /\ drag_origin = NoExtent

Idle == dragging_segment = None

\* Room on the heap for n more segments once S is garbage collected.
Room(S, n) == Cardinality(DOMAIN Collect(S).objs) + n <= MaxObjects

\* What a press at a pixel depends on: the frame and, on a segment, the mode.
PressClass(S, pos) ==
    LET seg == ClickedSegment(S, FrameAt(S, pos))
    IN  <<FrameAt(S, pos), IF seg = None THEN "none" ELSE PressMode(S, seg, pos)>>

\* The pixels of the bar where that changes: a press anywhere else acts as
\* the press at the nearest such pixel to its left.
PressPixels(S) ==
    {pos \in 0..(BarWidth - 1) :
        pos = 0 \/ PressClass(S, pos) # PressClass(S, pos - 1)}

\* The "add time window" button.
AddTimeWindow ==
    /\ Idle
    /\ Room(State, 1)
    /\ Becomes(add_time_window(State))
    /\ out' = NoOut
    /\ UNCHANGED <<pointer_frame, drag_origin>>

\* The frame slider.
SliderMoved ==
    /\ Idle
    /\ \E value \in 0..(total_frames - 1) :
          /\ value # current_frame
          /\ Becomes(on_slider_value_changed(State, value))
    /\ out' = NoOut
    /\ UNCHANGED <<pointer_frame, drag_origin>>

\* A press at a pixel; `track` records the pointer and the extent at the
\* beginning of the drag session.
Pressed(pos, ctrl, track) ==
    LET T == mousePressEvent(State, pos, ctrl)
        on == track /\ T.drag # None
    IN  /\ Becomes(T)
        /\ pointer_frame' = IF on THEN FrameAt(State, pos) ELSE 0
        /\ drag_origin' = IF on THEN [start |-> T.objs[T.drag].start,
                                      end |-> T.objs[T.drag].end]
                          ELSE NoExtent
        /\ out' = NoOut

\* Left button pressed on the bar.
MousePress ==
    /\ Idle
    /\ \E pos \in PressPixels(State) : Pressed(pos, FALSE, FALSE)

\* Left button pressed on the bar with Ctrl held.
CtrlPress ==
    /\ Idle
    /\ \E pos \in PressPixels(State) : Pressed(pos, TRUE, FALSE)

\* Right button pressed on the bar: the selection is dropped.
RightPress ==
    /\ selected_segments # <<>>
    /\ Becomes([State EXCEPT !.sel = <<>>])
    /\ out' = NoOut
    /\ UNCHANGED <<pointer_frame, drag_origin>>

Moved(frame, track) ==
    /\ Becomes(mouseMoveEvent(State, frame))
    /\ pointer_frame' = IF track THEN frame ELSE 0
    /\ out' = NoOut
    /\ UNCHANGED drag_origin

\* The pointer moves to a frame while a segment is dragged.
MouseMove ==
    /\ ~Idle
    /\ \E frame \in (0 - MaxOver)..(total_frames - 1 + MaxOver) : Moved(frame, FALSE)

\* Left button released.
MouseRelease ==
    /\ ~Idle
    /\ Becomes(mouseReleaseEvent(State))
    /\ out' = NoOut
    /\ pointer_frame' = 0
    /\ drag_origin' = NoExtent

\* Backspace with a selection.
Backspace ==
    /\ selected_segments # <<>>
    /\ Becomes(keyPressBackspace(State))
    /\ out' = NoOut
    /\ UNCHANGED <<pointer_frame, drag_origin>>

\* A double click at a pixel: press, release, then the dialog of
\* mouseDoubleClickEvent, accepted with an extent and a text.
DoubleClicked(pos, timed) ==
    \E T \in {mouseReleaseEvent(mousePressEvent(State, pos, FALSE))} :
       \E seg \in {ClickedSegment(T, FrameAt(T, pos))} :
          /\ seg # None
          /\ \E new_start, new_end \in 0..total_frames, text \in Labels :
                /\ DialogAccepts(T.objs[seg].start, T.objs[seg].end,
                                 new_start, new_end)
                /\ timed = (new_start # T.objs[seg].start \/ new_end # T.objs[seg].end)
                /\ Becomes(edit_segment_annotation(T, seg, new_start, new_end, text))

\* A double click on a segment, the dialog accepted with another text.
DoubleClickLabel ==
    /\ Idle
    /\ \E pos \in PressPixels(State) : DoubleClicked(pos, FALSE)
    /\ out' = NoOut
    /\ UNCHANGED <<pointer_frame, drag_origin>>

\* A double click on a segment, the dialog accepted with another extent.
DoubleClickExtent ==
    /\ Idle
    /\ \E pos \in PressPixels(State) : DoubleClicked(pos, TRUE)
    /\ out' = NoOut
    /\ UNCHANGED <<pointer_frame, drag_origin>>

\* The "edit annotation" button of the main window, dialog accepted.
EditCurrentAnnotation ==
    /\ Idle
    /\ selected_window_index # None
    /\ selected_window_index <= Len(time_windows)
    /\ \E w \in {time_windows[selected_window_index]} :
          /\ Room([State EXCEPT !.segs = WithoutExtent(State, w.start, w.end)], 1)
          /\ \E new_start, new_end \in 0..total_frames, text \in Labels :
                /\ DialogAccepts(w.start, w.end, new_start, new_end)
                /\ Becomes(edit_current_annotation(State, new_start, new_end, text))
    /\ out' = NoOut
    /\ UNCHANGED <<pointer_frame, drag_origin>>

\* The "clear timeline" button, confirmed.
ClearTimeline ==
    /\ Idle
    /\ time_windows # <<>>
    /\ Becomes(clear_timeline_annotations(State))
    /\ out' = NoOut
    /\ UNCHANGED <<pointer_frame, drag_origin>>

\* The "save to HDF5" button.
SaveHdf5 ==
    /\ Idle
    /\ \E reply \in BOOLEAN, io \in BOOLEAN : out' = save_annotations(State, reply, io)
    /\ Becomes(State)
    /\ UNCHANGED <<pointer_frame, drag_origin>>

\* The "save as JSON" button.
SaveJson ==
    /\ Idle
    /\ \E chosen \in BOOLEAN : out' = save_annotations_as_json(State, chosen)
    /\ Becomes(State)
    /\ UNCHANGED <<pointer_frame, drag_origin>>

\* A recording is opened.
LoadHdf5File ==
    /\ Idle
    /\ \E frame_count \in 1..MaxFrames : Becomes(load_hdf5_file(State, frame_count))
    /\ out' = NoOut
    /\ UNCHANGED <<pointer_frame, drag_origin>>

\* An annotation field of the open recording is chosen.
LoadSelectedField ==
    /\ Idle
    /\ hdf5_model
    /\ \E data \in [0..(total_frames - 1) -> StoredTexts] :
          /\ Len(get_languages_for_key(State, data)) <= MaxObjects
          /\ Becomes(load_selected_field(State, data))
    /\ out' = NoOut
    /\ UNCHANGED <<pointer_frame, drag_origin>>

\* Left button pressed on the bar, the drag session recorded.
DragPress ==
    /\ Idle
    /\ \E pos \in PressPixels(State) : Pressed(pos, FALSE, TRUE)

\* The pointer moves while a segment is dragged, the drag session recorded.
DragMove ==
    /\ ~Idle
    /\ \E frame \in (0 - MaxOver)..(total_frames - 1 + MaxOver) : Moved(frame, TRUE)

\* The start handle of the range selector is dragged or stepped to a frame.
SetStart ==
    /\ range_selector.active
    /\ \E val \in (0 - MaxOver)..(total_frames + MaxOver) :
          \E rs \in {set_start(range_selector, val)} :
             Becomes(set_current_frame([State EXCEPT !.rs = rs], rs.start))
    /\ out' = NoOut
    /\ UNCHANGED <<pointer_frame, drag_origin>>

\* The end handle of the range selector is dragged or stepped to a frame.
SetEnd ==
    /\ range_selector.active
    /\ \E val \in (0 - MaxOver)..(total_frames + MaxOver) :
          \E rs \in {set_end(range_selector, val)} :
             Becomes(set_current_frame([State EXCEPT !.rs = rs], rs.end))
    /\ out' = NoOut
    /\ UNCHANGED <<pointer_frame, drag_origin>>

\* The range is dragged as a whole by delta frames.
MoveRange ==
    /\ range_selector.active
    /\ \E delta \in (0 - total_frames - MaxOver)..(total_frames + MaxOver) :
          /\ delta # 0
          /\ Becomes([State EXCEPT !.rs = move_range(range_selector, delta)])
    /\ out' = NoOut
    /\ UNCHANGED <<pointer_frame, drag_origin>>

\* The Enter key starts the range selection or confirms the range.
EnterKey ==
    /\ Idle
    /\ Becomes(keyPressEnter(State))
    /\ out' = IF range_selector.active
              THEN [NoOut EXCEPT !.report = "range_selected",
                                 !.named = <<<<range_selector.start, range_selector.end>>>>]
              ELSE NoOut
    /\ UNCHANGED <<pointer_frame, drag_origin>>

\* validate_time_windows applied to the window list.
Validate ==
    /\ \E reason \in {validate_time_windows(time_windows, total_frames)} :
          out' = [Report(reason) EXCEPT
                     !.named = validate_time_windows_named(time_windows, reason)]
    /\ Becomes(State)
    /\ UNCHANGED <<pointer_frame, drag_origin>>

\* ---------------------------------------------------------- specifications
\* The timeline driven by the buttons, the mouse and the keyboard.
Next ==
    \/ AddTimeWindow
    \/ SliderMoved
    \/ MousePress
    \/ MouseMove
    \/ MouseRelease
    \/ Backspace
    \/ DoubleClickLabel

Spec == Init /\ [][Next]_vars

\* Drag sessions with the pointer and the extent at their beginning recorded.
NextDrag ==
    \/ AddTimeWindow
    \/ SliderMoved
    \/ DragPress
    \/ DragMove
    \/ MouseRelease

SpecDrag == Init /\ [][NextDrag]_vars

\* The longest recording of the add-only specification.
MaxAddFrames == 6

\* A recording of any length has just been opened (MainWindow.load_hdf5_file
\* from the constructed state): no window yet, the slider at frame 0.
InitAdd ==
    /\ total_frames \in 1..MaxAddFrames
    /\ current_frame = 0
    /\ time_windows = <<>>
    /\ objs = [i \in {} |-> Segment(0, 0, "")]
    /\ segments = <<>>
    /\ selected_segments = <<>>
    /\ dragging_segment = None
    /\ drag_mode = "none"
    /\ drag_start_frame = 0
    /\ selected_window_index = None
    /\ hdf5_model = TRUE
    /\ current_annotation_field = FALSE
    /\ range_selector = [RangeSelector(0, MaxFrames) EXCEPT !.max_val = total_frames]
    /\ out = NoOut
    /\ pointer_frame = 0
    /\ drag_origin = NoExtent

\* Only adds and moves of the frame slider.
NextAdd ==
    \/ AddTimeWindow
    \/ SliderMoved

SpecAdd == InitAdd /\ [][NextAdd]_vars

\* A recording is open; windows are added, the range selection is started
\* with Enter, its handles and the range are moved, and Enter confirms.
NextRange ==
    \/ AddTimeWindow
    \/ SliderMoved
    \/ EnterKey
    \/ SetStart
    \/ SetEnd
    \/ MoveRange

SpecRange == InitAdd /\ [][NextRange]_vars

\* Windows added and then edited in the phrase dialog, from the bar and from
\* the main window.
NextDialog ==
    \/ AddTimeWindow
    \/ DoubleClickExtent
    \/ EditCurrentAnnotation

SpecDialog == Init /\ [][NextDialog]_vars

\* A recording is opened, a field loaded, windows added and labelled, and
\* the two save buttons pressed.
NextSave ==
    \/ LoadHdf5File
    \/ LoadSelectedField
    \/ AddTimeWindow
    \/ SliderMoved
    \/ SaveHdf5
    \/ SaveJson

SpecSave == Init /\ [][NextSave]_vars

\* The validator on its own: every window list of up to MaxList windows over
\* the frames 0..MaxFrames-1, for every frame count.
Extents == {Window(s, e, "") : s, e \in 0..(MaxFrames - 1)}
WindowLists == UNION {[1..n -> Extents] : n \in 0..MaxList}

InitValidate ==
    /\ total_frames \in 1..MaxFrames
    /\ current_frame = 0
    /\ time_windows \in WindowLists
    /\ objs = [i \in {} |-> Segment(0, 0, "")]
    /\ segments = <<>>
    /\ selected_segments = <<>>
    /\ dragging_segment = None
    /\ drag_mode = "none"
    /\ drag_start_frame = 0
    /\ selected_window_index = None
    /\ hdf5_model = FALSE
    /\ current_annotation_field = FALSE
    /\ range_selector = RangeSelector(0, MaxFrames)
    /\ out = NoOut
    /\ pointer_frame = 0
    /\ drag_origin = NoExtent

NextValidate == Validate

SpecValidate == InitValidate /\ [][NextValidate]_vars

\* The range selector on its own: every set of snap points among the frames,
\* every threshold up to MaxThreshold and every pair of handles start < end.
RangeSelectors ==
    {[min_val |-> 0, max_val |-> MaxFrames, start |-> s, end |-> e,
      snap_threshold |-> th, snap_points |-> P, active |-> TRUE] :
        s \in 0..MaxFrames, e \in 0..MaxFrames, th \in 0..MaxThreshold,
        P \in SUBSET (0..MaxFrames)}

InitSnap ==
    /\ total_frames = MaxFrames
    /\ current_frame = 0
    /\ time_windows = <<>>
    /\ objs = [i \in {} |-> Segment(0, 0, "")]
    /\ segments = <<>>
    /\ selected_segments = <<>>
    /\ dragging_segment = None
    /\ drag_mode = "none"
    /\ drag_start_frame = 0
    /\ selected_window_index = None
    /\ hdf5_model = FALSE
    /\ current_annotation_field = FALSE
    /\ range_selector \in {rs \in RangeSelectors : rs.start < rs.end}
    /\ out = NoOut
    /\ pointer_frame = 0
    /\ drag_origin = NoExtent

NextSnap ==
    \/ SetStart
    \/ SetEnd

SpecSnap == InitSnap /\ [][NextSnap]_vars

\* Windows added, selected with Ctrl held, deleted with Backspace, and the
\* timeline cleared.
NextDelete ==
    \/ AddTimeWindow
    \/ SliderMoved
    \/ CtrlPress
    \/ RightPress
    \/ Backspace
    \/ ClearTimeline

SpecDelete == Init /\ [][NextDelete]_vars

\* ------------------------------------------------------------------ claims
Seg(k) == objs[segments[k]]
Disjoint(a, b) == a.end < b.start \/ b.end < a.start

SegmentsDisjoint ==
    \A j, k \in 1..Len(segments) : j < k => Disjoint(Seg(j), Seg(k))

WindowsDisjoint ==
    \A j, k \in 1..Len(time_windows) :
        j < k => Disjoint(time_windows[j], time_windows[k])

\* time_windows and the segments of the bar hold the same windows.
SameWindows ==
    /\ Len(time_windows) = Len(segments)
    /\ \A k \in 1..Len(segments) :
          Cardinality({i \in 1..Len(time_windows) :
              time_windows[i] = Window(Seg(k).start, Seg(k).end, Seg(k).subtask)})
          = Cardinality({j \in 1..Len(segments) : Seg(j) = Seg(k)})

DistinctLabels ==
    \A j, k \in 1..Len(segments) : j < k => Seg(j).subtask # Seg(k).subtask

InRange(w) == 0 <= w.start /\ w.start <= w.end /\ w.end <= total_frames - 1

\* No segment of the bar starts strictly between the frames a and b.
NoneBetween(a, b) ==
    \A k \in 1..Len(segments) : ~(a < Seg(k).start /\ Seg(k).start < b)

\* C1: whenever no drag is in progress, no two distinct windows intersect,
\* neither among the segments of the bar nor in time_windows.
C1_NoOverlapWhenIdle == Idle => (SegmentsDisjoint /\ WindowsDisjoint)

\* C2: in every state every window satisfies 0 <= start <= end <=
\* total_frames - 1, among the segments of the bar and in time_windows.
C2_ExtentsInRange ==
    /\ \A k \in 1..Len(segments) : InRange(Seg(k))
    /\ \A i \in 1..Len(time_windows) : InRange(time_windows[i])

\* C3: while the right edge of C is dragged, an update to a frame newEnd
\* inside C's later neighbour N (N.start <= newEnd < N.end) leaves
\* C = [C.start, newEnd] and N = [newEnd + 1, N.end].
C3_ResizeRightShrinksNext ==
    (/\ drag_mode = "resize_right"
     /\ dragging_segment \in Range(segments)
     /\ SegmentsDisjoint /\ SameWindows /\ DistinctLabels)
    => \A newEnd \in 0..(total_frames - 1), n \in Range(segments) :
          LET C == objs[dragging_segment]
              N == objs[n]
              T == mouseMoveEvent(State, newEnd)
          IN  (/\ n # dragging_segment
               /\ C.start < N.start /\ NoneBetween(C.start, N.start)
               /\ N.start <= newEnd /\ newEnd < N.end)
              => /\ T.objs[dragging_segment].start = C.start
                 /\ T.objs[dragging_segment].end = newEnd
                 /\ T.objs[n].start = newEnd + 1
                 /\ T.objs[n].end = N.end

\* C4: while the left edge of C is dragged, an update to a frame s inside
\* C's earlier neighbour P (P.start < s <= P.end) leaves C.start = s,
\* P.end = s - 1 and P.start <= P.end.
C4_ResizeLeftShrinksPrevious ==
    (/\ drag_mode = "resize_left"
     /\ dragging_segment \in Range(segments)
     /\ SegmentsDisjoint /\ SameWindows /\ DistinctLabels)
    => \A s \in 0..(total_frames - 1), p \in Range(segments) :
          LET C == objs[dragging_segment]
              P == objs[p]
              T == mouseMoveEvent(State, s)
          IN  (/\ p # dragging_segment
               /\ P.start < C.start /\ NoneBetween(P.start, C.start)
               /\ P.start < s /\ s <= P.end)
              => /\ T.objs[dragging_segment].start = s
                 /\ T.objs[p].end = s - 1
                 /\ T.objs[p].start <= T.objs[p].end

\* C5: after every update of a move, the dragged window C lies strictly
\* after the windows that were before it and strictly before the windows
\* that were after it.
C5_MoveStopsAtNeighbours ==
    (/\ drag_mode = "move"
     /\ dragging_segment \in Range(segments)
     /\ SegmentsDisjoint /\ SameWindows)
    => \A frame \in (0 - MaxOver)..(total_frames - 1 + MaxOver),
          o \in Range(segments) \ {dragging_segment} :
          LET C == objs[dragging_segment]
              T == mouseMoveEvent(State, frame)
          IN  /\ objs[o].start < C.start
                    => T.objs[dragging_segment].start > T.objs[o].end
              /\ objs[o].start > C.start
                    => T.objs[dragging_segment].end < T.objs[o].start

\* C6: for a member C of a non-overlapping window set and each of the three
\* operations, the adjuster called with the proposal (C.start, C.end)
\* returns (C.start, C.end) and changes no window in time_windows or on the bar.
C6_AdjusterKeepsCurrentExtent ==
    (Idle /\ SegmentsDisjoint /\ WindowsDisjoint /\ SameWindows)
    => \A c \in Range(segments), op \in {"move", "resize_left", "resize_right"} :
          LET r == adjust_window_boundaries_smart(State, c, objs[c].start,
                                                  objs[c].end, op)
          IN  /\ r.start = objs[c].start
              /\ r.end = objs[c].end
              /\ r.S.tw = time_windows
              /\ r.S.objs = objs

\* The claim's own reading of a valid list: sorted by start, the first window
\* starts at 0, the last ends at tf - 1, and consecutive windows touch.
Tiles(tw, tf) ==
    LET order == StableOrder([i \in 1..Len(tw) |-> tw[i].start])
    IN  /\ tw # <<>>
        /\ tw[order[1]].start = 0
        /\ tw[order[Len(tw)]].end = tf - 1
        /\ \A i \in 1..(Len(tw) - 1) : tw[order[i]].end + 1 = tw[order[i + 1]].start

\* C7: for a list whose windows all have start <= end, validate_time_windows
\* reports valid exactly when the list, sorted by start, begins at 0, ends at
\* total_frames - 1 and has end + 1 = next start throughout; the empty list
\* is invalid and the single window [0, total_frames - 1] is valid.
C7_ValidIffTiles ==
    (/\ out.report # "none"
     /\ \A i \in 1..Len(time_windows) : time_windows[i].start <= time_windows[i].end)
    => /\ (out.report = "valid") = Tiles(time_windows, total_frames)
       /\ time_windows = <<>> => out.report # "valid"
       /\ time_windows = <<Window(0, total_frames - 1, "")>> => out.report = "valid"

\* A list of two windows that tiles the frames has been validated.
C7_Witness ==
    /\ out.report = "valid"
    /\ Len(time_windows) = 2

SaveFailures == {"nothing_to_save", "no_field", "validation_failed", "cancelled"}

\* C8: a save step hands windows to set_language_for_key or to the JSON
\* writer only when validate_time_windows reports valid; on any other list
\* it reports a failure, hands nothing over and leaves the windows as they are.
C8_SaveOnlyWhenValid ==
    [][out'.report # "none"
       => \/ validate_time_windows(time_windows, total_frames) = "valid"
          \/ /\ out'.report \in SaveFailures
             /\ out'.writes = <<>> /\ out'.json = <<>>
             /\ time_windows' = time_windows
             /\ segments' = segments /\ objs' = objs]_vars

\* A save to HDF5 has handed a window to set_language_for_key.
C8_Witness == out.writes # <<>>

\* C9: the first update of a move of the only window, by a delta that takes
\* its end past the last frame, leaves it at [total_frames - w, total_frames - 1];
\* by a delta that takes its start below 0, at [0, w - 1].
C9_MoveClampsAtEnds ==
    [][(/\ drag_mode = "move" /\ drag_mode' = "move"
        /\ Len(segments) = 1 /\ segments' = segments
        /\ dragging_segment = segments[1] /\ dragging_segment' = dragging_segment
        /\ Seg(1).start = drag_origin.start /\ Seg(1).end = drag_origin.end
        /\ pointer_frame = drag_start_frame)
       => LET w == drag_origin.end - drag_origin.start + 1
              delta == pointer_frame' - drag_start_frame
              after == objs'[dragging_segment]
          IN  /\ drag_origin.end + delta > total_frames - 1
                    => after.start = total_frames - w /\ after.end = total_frames - 1
              /\ drag_origin.start + delta < 0
                    => after.start = 0 /\ after.end = w - 1]_vars

\* C10: in a move session, an update to the frame of the update before it
\* leaves the extent of the dragged window unchanged.
C10_SameFrameSameExtent ==
    [][(/\ drag_mode = "move" /\ drag_mode' = "move"
        /\ dragging_segment \in Range(segments)
        /\ dragging_segment' = dragging_segment /\ segments' = segments
        /\ pointer_frame # drag_start_frame
        /\ pointer_frame' = pointer_frame)
       => objs'[dragging_segment] = objs[dragging_segment]]_vars

\* time_windows is in non-decreasing order of start.
StartSorted ==
    \A i \in 1..(Len(time_windows) - 1) :
        time_windows[i].start <= time_windows[i + 1].start

\* C11: the step that ends a drag leaves time_windows equal to the segments
\* of the bar in order of start (same length, extents and labels) and the
\* session idle: no dragged segment and no drag mode.
C11_ReleaseSyncs ==
    [][(dragging_segment # None /\ dragging_segment' = None)
       => /\ drag_mode' = "none"
          /\ SameWindows'
          /\ StartSorted']_vars

\* A release has put two windows into an order of start that is not the
\* order of their segments on the bar.
C11_Witness ==
    /\ Idle
    /\ Len(segments) = 2
    /\ Seg(1).start > Seg(2).start
    /\ time_windows = <<Window(Seg(2).start, Seg(2).end, Seg(2).subtask),
                        Window(Seg(1).start, Seg(1).end, Seg(1).subtask)>>

\* The extent [s, e] shares a frame with the window w.
Intersects(s, e, w) == s <= w.end /\ w.start <= e

\* C12: an add whose chosen extent intersects an existing window, or that
\* finds no extent, changes neither time_windows nor the segments nor the
\* current frame; any other add either changes none of them or appends one
\* window with the empty label, intersecting no existing window, and one
\* segment, with every existing window and segment unchanged.
C12_AddNeverOverlaps ==
    Idle =>
    LET x == AddExtent(State)
        T == add_time_window(State)
        n == Len(time_windows)
        unchanged == /\ T.tw = time_windows /\ T.segs = segments
                     /\ T.objs = objs /\ T.cf = current_frame
        refused == \/ x.kind = "none"
                   \/ x.end < x.start
                   \/ \E i \in 1..n : Intersects(x.start, x.end, time_windows[i])
        appended == /\ Len(T.tw) = n + 1
                    /\ SubSeq(T.tw, 1, n) = time_windows
                    /\ T.tw[n + 1].description = ""
                    /\ T.tw[n + 1].start <= T.tw[n + 1].end
                    /\ \A i \in 1..n : ~Intersects(T.tw[n + 1].start, T.tw[n + 1].end,
                                                    time_windows[i])
                    /\ Len(T.segs) = Len(segments) + 1
                    /\ SubSeq(T.segs, 1, Len(segments)) = segments
                    /\ \A id \in DOMAIN objs : T.objs[id] = objs[id]
                    /\ T.objs[T.segs[Len(T.segs)]] =
                           Segment(T.tw[n + 1].start, T.tw[n + 1].end, "")
    IN  /\ refused => unchanged
        /\ unchanged \/ appended

\* An add next to one window succeeds.
C12_Witness ==
    /\ Idle
    /\ Len(time_windows) = 1
    /\ AddReport(State) = "added"
    /\ Len(add_time_window(State).tw) = 2
\* The segments of the bar all lie inside the recording.
SegmentsInRange == \A k \in 1..Len(segments) : InRange(Seg(k))

\* n is the segment next after c in order of start; p the one next before c.
IsNext(c, n) ==
    n # c /\ objs[c].start < objs[n].start /\ NoneBetween(objs[c].start, objs[n].start)
IsPrev(c, p) ==
    p # c /\ objs[p].start < objs[c].start /\ NoneBetween(objs[p].start, objs[c].start)

\* The neighbour nb of the dragged window after the update T: it keeps at
\* least one frame, the dragged window does not intersect it, and no window
\* has gone from the bar or from time_windows.
NeighbourKept(T, nb) ==
    /\ T.objs[nb].start <= T.objs[nb].end
    /\ Disjoint(T.objs[dragging_segment], T.objs[nb])
    /\ Len(T.segs) = Len(segments)
    /\ Len(T.tw) = Len(time_windows)
    /\ \A i \in 1..Len(T.tw) : T.tw[i].start <= T.tw[i].end

\* C13: a resize whose frame is at or past the far edge of the adjacent
\* window (f >= N.end for the right edge, f <= P.start for the left edge)
\* leaves that window with start <= end and not intersecting the dragged
\* window, and the number of windows unchanged.
C13_ResizeKeepsNeighbour ==
    (/\ dragging_segment \in Range(segments)
     /\ SegmentsDisjoint /\ SegmentsInRange /\ SameWindows)
    => \A f \in (0 - MaxOver)..(total_frames - 1 + MaxOver),
          nb \in Range(segments) :
          LET T == mouseMoveEvent(State, f)
          IN  /\ (drag_mode = "resize_right" /\ IsNext(dragging_segment, nb)
                    /\ f >= objs[nb].end)
                   => NeighbourKept(T, nb)
              /\ (drag_mode = "resize_left" /\ IsPrev(dragging_segment, nb)
                    /\ f <= objs[nb].start)
                   => NeighbourKept(T, nb)

\* The same with no two windows carrying the same label.
C13_DistinctLabels == DistinctLabels => C13_ResizeKeepsNeighbour

\* After the update T only the dragged window has changed, and it has
\* become [s, e]: every other segment and every window of time_windows that
\* is not the dragged one is as before.
OnlyDraggedBecomes(T, s, e) ==
    LET C == objs[dragging_segment]
    IN  /\ T.objs[dragging_segment] = Segment(s, e, C.subtask)
        /\ T.segs = segments
        /\ \A id \in DOMAIN objs \ {dragging_segment} : T.objs[id] = objs[id]
        /\ Len(T.tw) = Len(time_windows)
        /\ \A i \in 1..Len(time_windows) :
              time_windows[i] # Window(C.start, C.end, C.subtask)
                  => T.tw[i] = time_windows[i]

\* C14: a resize_right of C to a frame f > C.start, with no next window or
\* with min(f, total_frames - 1) before the next window, sets C.end to
\* min(f, total_frames - 1) and changes nothing else; a resize_left to a
\* frame f < C.end, with no previous window or with max(f, 0) after the
\* previous window, sets C.start to max(f, 0) and changes nothing else.
C14_ResizeFreeEdge ==
    (/\ dragging_segment \in Range(segments)
     /\ SegmentsDisjoint /\ SegmentsInRange /\ SameWindows)
    => \A f \in (0 - MaxOver)..(total_frames - 1 + MaxOver) :
          LET C == objs[dragging_segment]
              T == mouseMoveEvent(State, f)
              e == Min2(f, total_frames - 1)
              s == Max2(f, 0)
          IN  /\ (/\ drag_mode = "resize_right" /\ f > C.start
                   /\ \A n \in Range(segments) :
                         IsNext(dragging_segment, n) => e < objs[n].start)
                  => OnlyDraggedBecomes(T, C.start, e)
              /\ (/\ drag_mode = "resize_left" /\ f < C.end
                   /\ \A p \in Range(segments) :
                         IsPrev(dragging_segment, p) => s > objs[p].end)
                  => OnlyDraggedBecomes(T, s, C.end)

\* The same with no two windows carrying the same label.
C14_DistinctLabels == DistinctLabels => C14_ResizeFreeEdge

\* time_windows in order of start.
SortedWindows ==
    LET order == StableOrder([i \in 1..Len(time_windows) |-> time_windows[i].start])
    IN  [k \in 1..Len(time_windows) |-> time_windows[order[k]]]

\* The positions of the adjacent pairs of the sorted list sw that do not
\* touch (end + 1 # next start).
Offending(sw) == {i \in 1..(Len(sw) - 1) : sw[i].end + 1 # sw[i + 1].start}

\* A non-empty list that begins at 0 and ends at total_frames - 1.
Covering(sw) ==
    /\ sw # <<>>
    /\ sw[1].start = 0
    /\ sw[Len(sw)].end = total_frames - 1

\* The verdict on the first offending pair: a gap exactly when its windows
\* are apart, an overlap exactly when they intersect, and the message names
\* the two windows of that pair.
PairVerdict(sw) ==
    \A bad \in {Offending(sw)} :
        IF bad = {} THEN out.report \notin {"gap", "overlap"}
        ELSE LET a == sw[SetMin(bad)]
                 b == sw[SetMin(bad) + 1]
             IN  /\ (out.report = "gap") = (a.end + 1 < b.start)
                 /\ (out.report = "overlap") = (a.end >= b.start)
                 /\ out.report \in {"gap", "overlap"}
                       => out.named = <<Extent(a), Extent(b)>>

InvertedBefore(sw) ==
    \A bad \in {Offending(sw)} :
        \E k \in 1..Len(sw) :
            /\ sw[k].start > sw[k].end
            /\ bad # {} => k <= SetMin(bad)

WindowOf(id) == Window(objs[id].start, objs[id].end, objs[id].subtask)

\* C16: Backspace removes exactly the selected windows from the segments of
\* the bar and from time_windows, leaves every other window as it is in
\* both, and empties the selection; a selected segment that is no longer on
\* the bar changes nothing.
C16_DeleteExactlySelected ==
    (Idle /\ SegmentsDisjoint /\ SameWindows /\ selected_segments # <<>>)
    => LET T == keyPressBackspace(State)
           gone == Range(selected_segments) \cap Range(segments)
       IN  /\ T.sel = <<>>
           /\ T.segs = SelectSeq(segments, LAMBDA id : id \notin gone)
           /\ \A id \in Range(T.segs) : T.objs[id] = objs[id]
           /\ T.tw = SelectSeq(time_windows,
                               LAMBDA w : \A id \in gone : w # WindowOf(id))

\* C17: opening a recording leaves time_windows and the segments of the bar
\* empty; loading a field leaves in both exactly the intervals stored for
\* that field, in their order, each as a segment of its own, whatever
\* windows there were before.
C17_SwitchReplacesWindows ==
    Idle =>
    /\ \A frame_count \in 1..MaxFrames :
          LET T == load_hdf5_file(State, frame_count)
          IN  T.tw = <<>> /\ T.segs = <<>>
    /\ hdf5_model =>
          \A data \in [0..(total_frames - 1) -> StoredTexts] :
             LET runs == get_languages_for_key(State, data)
                 T == load_selected_field(State, data)
                 shown(k) == IF runs[k].text = "A" THEN "a" ELSE runs[k].text
             IN  Len(runs) <= MaxObjects =>
                 /\ Len(T.tw) = Len(runs)
                 /\ Len(T.segs) = Len(runs)
                 /\ \A j, k \in 1..Len(runs) : j # k => T.segs[j] # T.segs[k]
                 /\ \A k \in 1..Len(runs) :
                       /\ T.tw[k] = Window(runs[k].start, runs[k].end, shown(k))
                       /\ T.objs[T.segs[k]] =
                              Segment(runs[k].start, runs[k].end, shown(k))

\* A field with "A" on the frames 0..1 and "b" on the frames 2..3 has been
\* loaded.
C17_Witness ==
    /\ current_annotation_field
    /\ time_windows = <<Window(0, 1, "a"), Window(2, 3, "b")>>
    /\ Len(segments) = 2
    /\ SameWindows

\* The frames a handle may be set to for a raw frame, a set of candidates and
\* a threshold: the candidates closest to the raw frame when they are within
\* the threshold of it, otherwise the raw frame.
Resolve(raw, candidates, threshold) ==
    IF \E p \in candidates : Abs(raw - p) <= threshold
    THEN {p \in candidates : \A q \in candidates : Abs(raw - p) <= Abs(raw - q)}
    ELSE {raw}

\* The raw frame of each handle for a frame val: val held inside the range
\* of the selector and on its own side of the other handle.
RawStart(val) == Max2(range_selector.min_val, Min2(val, range_selector.end - 1))
RawEnd(val) == Max2(range_selector.start + 1, Min2(val, range_selector.max_val))

\* C18 as stated: each handle is set to the snap point closest to its raw
\* frame when that point is within the threshold, otherwise to the raw frame.
C18_SnapToClosest ==
    \A val \in (0 - MaxOver)..(MaxFrames + MaxOver) :
        /\ set_start(range_selector, val).start
              \in Resolve(RawStart(val), range_selector.snap_points,
                          range_selector.snap_threshold)
        /\ set_end(range_selector, val).end
              \in Resolve(RawEnd(val), range_selector.snap_points,
                          range_selector.snap_threshold)

\* C18 amended: the same among the snap points the handle may take, those
\* from min_val to before the end handle for the start handle and those
\* after the start handle up to max_val for the end handle; the other
\* handle is left alone.
C18_SnapToClosestAllowed ==
    \A val \in (0 - MaxOver)..(MaxFrames + MaxOver) :
        LET rs == range_selector
            S == set_start(rs, val)
            E == set_end(rs, val)
        IN  /\ S.start \in Resolve(RawStart(val),
                                    {p \in rs.snap_points : rs.min_val <= p /\ p < rs.end},
                                    rs.snap_threshold)
            /\ S = [rs EXCEPT !.start = S.start]
            /\ E.end \in Resolve(RawEnd(val),
                                  {p \in rs.snap_points : rs.start < p /\ p <= rs.max_val},
                                  rs.snap_threshold)
            /\ E = [rs EXCEPT !.end = E.end]

\* The start handle stands on the snap point 1, which a raw frame of 2 is
\* within the threshold of, and the nearer snap point 3 is the end handle's.
C18_Witness ==
    /\ range_selector.snap_points = {1, 3}
    /\ range_selector.snap_threshold = 1
    /\ range_selector.end = 3
    /\ range_selector.start = 1
    /\ set_start(range_selector, 2).start = 1

\* C19: the previous and the next window the adjuster uses for the dragged
\* segment C are the windows of the segments immediately before and after C
\* in order of start, also when another window carries C's label.
C19_NeighboursOfDragged ==
    (/\ dragging_segment \in Range(segments)
     /\ SegmentsDisjoint /\ SegmentsInRange /\ SameWindows)
    => LET c == dragging_segment
           ci == CurrentWindowIndex(State, c)
           nb == Neighbours(State, ci)
       IN  /\ ci # None
           /\ time_windows[ci] = WindowOf(c)
           /\ \A p \in Range(segments) :
                 IsPrev(c, p) => nb.prev # None /\ time_windows[nb.prev] = WindowOf(p)
           /\ \A n \in Range(segments) :
                 IsNext(c, n) => nb.next # None /\ time_windows[nb.next] = WindowOf(n)
           /\ (\A p \in Range(segments) : ~IsPrev(c, p)) => nb.prev = None
           /\ (\A n \in Range(segments) : ~IsNext(c, n)) => nb.next = None

\* The same with no two windows carrying the same label.
C19_DistinctLabels == DistinctLabels => C19_NeighboursOfDragged

\* C20: one update of a drag changes no segment other than the dragged
\* segment C and, for resize_left, the segment before C or, for
\* resize_right, the segment after C; it changes no label and not the number
\* of windows, on the bar and in time_windows, and in time_windows no window
\* other than those of the same segments.
C20_AdjusterTouchesOnlyNeighbour ==
    (/\ dragging_segment \in Range(segments)
     /\ SegmentsDisjoint /\ SegmentsInRange /\ SameWindows)
    => \A f \in (0 - MaxOver)..(total_frames - 1 + MaxOver) :
          LET c == dragging_segment
              T == mouseMoveEvent(State, f)
              may(id) == \/ id = c
                         \/ drag_mode = "resize_left" /\ IsPrev(c, id)
                         \/ drag_mode = "resize_right" /\ IsNext(c, id)
          IN  /\ T.segs = segments
              /\ Len(T.tw) = Len(time_windows)
              /\ \A id \in Range(segments) :
                    /\ T.objs[id].subtask = objs[id].subtask
                    /\ ~may(id) => T.objs[id] = objs[id]
              /\ \A i \in 1..Len(time_windows) :
                    /\ T.tw[i].description = time_windows[i].description
                    /\ (\A id \in Range(segments) :
                            may(id) => time_windows[i] # WindowOf(id))
                       => T.tw[i] = time_windows[i]

\* The same with no two windows carrying the same label.
C20_DistinctLabels == DistinctLabels => C20_AdjusterTouchesOnlyNeighbour

\* C21: whenever no drag is in progress, time_windows and the segments of
\* the bar hold the same multiset of (start, end, label) triples.
C21_SameWindowsWhenIdle == Idle => SameWindows

\* The triples shown on the bar of a state record, in bar order.
BarWindows(S) ==
    [k \in 1..Len(S.segs) |->
        Window(S.objs[S.segs[k]].start, S.objs[S.segs[k]].end, S.objs[S.segs[k]].subtask)]

\* Two lists of windows hold the same windows the same number of times.
SameBag(a, b) ==
    /\ Len(a) = Len(b)
    /\ \A k \in 1..Len(a) :
          Cardinality({i \in 1..Len(a) : a[i] = a[k]})
          = Cardinality({j \in 1..Len(b) : b[j] = a[k]})

\* What a dialog edit of window i of S to [ns, ne] with a text must leave in T.
EditPost(S, T, i, ns, ne, text) ==
    IF \E j \in 1..Len(S.tw) : j # i /\ Intersects(ns, ne, S.tw[j])
    THEN /\ T.tw = S.tw
         /\ BarWindows(T) = BarWindows(S)
    ELSE /\ T.tw = [S.tw EXCEPT ![i] = Window(ns, ne, text)]
         /\ SameBag(BarWindows(T), T.tw)

\* The accepted dialog inputs that change the extent [s, e].
ExtentEdits(s, e) ==
    {p \in (0..total_frames) \X (0..total_frames) :
        DialogAccepts(s, e, p[1], p[2]) /\ (p[1] # s \/ p[2] # e)}

\* C22: a dialog edit (from the main window's button or from a double click
\* on the bar) that moves a window to a range intersecting another window
\* changes neither the list nor the bar; an accepted edit to a free range
\* replaces the extent and label of the edited window only.
C22_DialogEditConflict ==
    (Idle /\ SameWindows) =>
       /\ (selected_window_index # None /\ selected_window_index <= Len(time_windows)) =>
             \A w \in {time_windows[selected_window_index]} :
                Room([State EXCEPT !.segs = WithoutExtent(State, w.start, w.end)], 1) =>
                   \A p \in ExtentEdits(w.start, w.end), text \in Labels :
                      EditPost(State,
                               Collect(edit_current_annotation(State, p[1], p[2], text)),
                               selected_window_index, p[1], p[2], text)
       /\ \A k \in 1..Len(segments) :
             \A p \in ExtentEdits(Seg(k).start, Seg(k).end), text \in Labels :
                \E i \in 1..Len(time_windows) :
                   /\ time_windows[i] = WindowOf(segments[k])
                   /\ EditPost(State,
                               Collect(edit_segment_annotation(State, segments[k], p[1], p[2], text)),
                               i, p[1], p[2], text)

\* C23: during a move session the dragged segment always has the frame
\* count it had when the drag began, also when a neighbour or an end of the
\* recording stops it.
C23_MoveKeepsWidth ==
    (~Idle /\ drag_mode = "move") =>
        objs[dragging_segment].end - objs[dragging_segment].start
        = drag_origin.end - drag_origin.start

\* A move has displaced the dragged segment and it now touches a neighbour
\* or an end of the recording.
C23_Witness ==
    /\ ~Idle /\ drag_mode = "move"
    /\ objs[dragging_segment].start # drag_origin.start
    /\ Len(segments) >= 2
    /\ \/ \E k \in 1..Len(segments) :
             \/ Seg(k).end + 1 = objs[dragging_segment].start
             \/ objs[dragging_segment].end + 1 = Seg(k).start
       \/ objs[dragging_segment].start = 0
       \/ objs[dragging_segment].end = total_frames - 1

\* C24: from an empty window set, adds interleaved with changes of the
\* current frame keep the windows, sorted by start, tiling [0, maxEnd]: the
\* first starts at 0 and each next starts one frame after the previous end.
C24_AddsTile ==
    time_windows # <<>> =>
        Tiles(time_windows,
              SetMax({time_windows[i].end : i \in 1..Len(time_windows)}) + 1)

\* max_windows windows were added, the last one after the slider was moved
\* past the end of the first.
C24_Witness ==
    /\ Len(time_windows) = max_windows
    /\ time_windows[Len(time_windows)].start > 0
    /\ time_windows[Len(time_windows)].end - time_windows[Len(time_windows)].start + 1
          > default_window_width

\* C25: every selected segment is one of the segments of the bar.
C25_SelectionInWindowSet ==
    \A k \in 1..Len(selected_segments) :
        \E j \in 1..Len(segments) : segments[j] = selected_segments[k]

\* C26: the window list never holds more than max_windows windows.
C26_AtMostMaxWindows == Len(time_windows) <= max_windows

\* The windows with a label, in list order.
LabelledWindows(tw) == SelectSeq(tw, LAMBDA w : w.description # "")

\* C27: a confirmed save of a valid window set hands the persistence layer
\* exactly the windows with a non-empty label, in list order, and reports
\* success iff one of the writes succeeded; with only empty labels it
\* reports failure and writes nothing.
C27_SavePassesLabelled ==
    (/\ Idle /\ hdf5_model /\ current_annotation_field /\ time_windows # <<>>
     /\ validate_time_windows(time_windows, total_frames) = "valid") =>
        \A io \in BOOLEAN :
           \A o \in {save_annotations(State, TRUE, io)} :
              \A lw \in {LabelledWindows(time_windows)} :
                 /\ o.report \in {"saved", "nothing_saved"}
                 /\ Len(o.writes) = Len(lw)
                 /\ \A k \in 1..Len(lw) :
                       /\ o.writes[k].start = lw[k].start
                       /\ o.writes[k].end = lw[k].end
                       /\ o.writes[k].text # ""
                 /\ (o.report = "saved") <=>
                       (\E k \in 1..Len(o.writes) : set_language_for_key(State, o.writes[k], io))
                 /\ (lw = <<>>) => (o.report = "nothing_saved" /\ o.writes = <<>>)

\* A save succeeded and left out a window without a label.
C27_Witness ==
    /\ out.report = "saved"
    /\ out.writes # <<>>
    /\ Len(out.writes) < Len(time_windows)
    /\ \E i \in 1..Len(time_windows) : time_windows[i].description = ""

\* The sum of the duration_frames of a list of exported entries.
RECURSIVE SumDurations(_)
SumDurations(entries) ==
    IF entries = <<>> THEN 0
    ELSE Head(entries).duration_frames + SumDurations(Tail(entries))

\* C28: a JSON export that is produced has one entry per window, in list
\* order, each with duration_frames = end_frame - start_frame + 1, and the
\* durations add up to the exported total_frames.
C28_JsonDurations ==
    out.report = "json_saved" =>
        /\ Len(out.json) = 1
        /\ \A doc \in {out.json[1]} :
              /\ Len(doc.entries) = Len(time_windows)
              /\ \A k \in 1..Len(time_windows) :
                    /\ doc.entries[k].start_frame = time_windows[k].start
                    /\ doc.entries[k].end_frame = time_windows[k].end
                    /\ doc.entries[k].duration_frames
                          = doc.entries[k].end_frame - doc.entries[k].start_frame + 1
              /\ SumDurations(doc.entries) = doc.total_frames

\* An export of two windows, one of them longer than one frame.
C28_Witness ==
    /\ out.report = "json_saved"
    /\ Len(out.json[1].entries) = 2
    /\ \E k \in 1..2 : out.json[1].entries[k].duration_frames > 1

\* Two entries of the list have the same (start, end).
HasDuplicateExtent(tw) ==
    \E i, j \in 1..Len(tw) : i # j /\ Extent(tw[i]) = Extent(tw[j])

\* C29: the validator never answers with the duplicate-window reason.
C29_DuplicateNeverReported == out.report # "duplicate"

\* A list with two entries of the same extent, the first window starting at
\* 0 and the last ending at the last frame, was validated and rejected.
C29_Witness ==
    /\ HasDuplicateExtent(time_windows)
    /\ out.report \in {"inverted", "overlap", "gap"}

\* C30: with a recording of at least two frames and the range selector
\* active, the handles satisfy 0 <= start < end <= total_frames - 1.
C30_RangeInsideRecording ==
    (total_frames >= 2 /\ range_selector.active) =>
        /\ 0 <= range_selector.start
        /\ range_selector.start < range_selector.end
        /\ range_selector.end <= total_frames - 1

====
